---- MODULE Spec2Model ----
(***************************************************************************)
(* Model of the fc-node3 firmware (src/fc-node3/firmware/main.c): the      *)
(* wake-count / power-mode state machine of main(), the two sleep          *)
(* strategies and the two interrupt handlers.                              *)
(*                                                                         *)
(* The main sequence is cut at the points where an interrupt handler may   *)
(* run; every handler runs to completion (the AVR clears the I flag on     *)
(* handler entry and RETI sets it again).  One behaviour of the model is   *)
(* one run of the program from power-on: a hardware reset starts a new     *)
(* run and is not a step of the model.                                     *)
(***************************************************************************)
EXTENDS Integers, Sequences, FiniteSets, TLC

(* ---------------------------------------------------------------------- *)
(* Node configuration                                                      *)
(* ---------------------------------------------------------------------- *)
NODE_ID == <<"J", "H", "9">>

HOPS == <<"1">>

WAKE_FREQ == 5

TX_POWER_DBM == 10

POWER_MODE_WDT_THRESH == 1350

POWER_MODE_WDT_HYST == 50

MODE_WDT == 0

MODE_BOOSTOFF == 1

(* Number of watchdog sleeps that make up one wake in MODE_WDT *)
WDT_ROUNDS == 8

(* ---------------------------------------------------------------------- *)
(* Bounds of the model                                                     *)
(* ---------------------------------------------------------------------- *)
(* the tick counter and the transmission log stop growing here *)
TickCap == 13

(* the run-length counter of the hysteresis scenario stops growing here *)
RunCap == 10

(* millivolt inputs of the power-mode update: Thresh-MvSpan .. Thresh+Hyst+MvSpan *)
MvSpan == 30

(* ---------------------------------------------------------------------- *)
(* Characters and strings: a C string is a sequence of one-character       *)
(* strings (without its terminating NUL); a char variable holds its code.  *)
(* ---------------------------------------------------------------------- *)
Alphabet ==
    << "a", "b", "c", "d", "e", "f", "g", "h", "i", "j", "k", "l", "m",
       "n", "o", "p", "q", "r", "s", "t", "u", "v", "w", "x", "y", "z" >>

Ord(c) == 96 + (CHOOSE i \in 1..26 : Alphabet[i] = c)

Chr(n) == Alphabet[n - 96]

DigitChar(d) == << "0", "1", "2", "3", "4", "5", "6", "7", "8", "9" >>[d + 1]

RECURSIVE utoaRev(_)
utoaRev(n) == IF n < 10 THEN << DigitChar(n) >>
              ELSE << DigitChar(n % 10) >> \o utoaRev(n \div 10)

RECURSIVE utoa(_)
utoa(n) == IF n < 10 THEN << DigitChar(n) >>
           ELSE utoa(n \div 10) \o << DigitChar(n % 10) >>

(* dtostrf(val, 1, 1, p): val is given in sixteenths of a degree (the      *)
(* DS18B20 resolution); one fractional digit, rounded half away from zero. *)
Abs(x) == IF x < 0 THEN -x ELSE x

TenthsTrunc(t16) == (Abs(t16) * 10) \div 16

Tenths(t16) == (Abs(t16) * 20 + 16) \div 32

dtostrf(t16) ==
    (IF t16 < 0 THEN << "-" >> ELSE << >>)
    \o utoa(Tenths(t16) \div 10) \o << "." >> \o << DigitChar(Tenths(t16) % 10) >>

(* get_batt_voltage(): r is the 10-bit ADC result *)
get_batt_voltage(r) == ((r * 3300) \div 1024) % 65536

(* ADC results the battery monitor is given: 1347, 1350, 1398, 1401, 3180 mV *)
AdcVals == {418, 419, 434, 435, 987}

(* sensor readings in sixteenths of a degree: 21.4375 C, 19.1875 C and    *)
(* -0.5 C                                                                  *)
Temp16s == {343, 307, -8}

(* ---------------------------------------------------------------------- *)
(* The pieces of the packet, in the order main() writes them               *)
(* ---------------------------------------------------------------------- *)
PktHead(sq) == HOPS \o << Chr(sq) >>

PktVolt(mv) == << "V" >> \o utoa(mv)

PktTemp(t16) == << "T" >> \o dtostrf(t16)

PktTail(pm) ==
    << "X" >> \o utoa(WAKE_FREQ) \o << "," >> \o utoa(TX_POWER_DBM)
    \o << "," >> \o utoa(pm) \o << "[" >> \o NODE_ID \o << "]" >>

(* ---------------------------------------------------------------------- *)
(* Sequence id and power mode updates of a transmit cycle                  *)
(* ---------------------------------------------------------------------- *)
SeqWrapA(sq) == IF sq = Ord("z") THEN Ord("a") ELSE sq + 1

NextSeqid(sq) == IF sq = Ord("z") THEN Ord("b") ELSE sq + 1

PowerModeLoose(pm, mv) ==
    IF pm = MODE_BOOSTOFF /\ mv <= POWER_MODE_WDT_THRESH
    THEN MODE_WDT
    ELSE IF pm = MODE_WDT /\ mv >= POWER_MODE_WDT_THRESH + POWER_MODE_WDT_HYST
         THEN MODE_BOOSTOFF
         ELSE pm

PowerModeNoHold(pm, mv) ==
    IF mv < POWER_MODE_WDT_THRESH /\ pm = MODE_BOOSTOFF
    THEN MODE_WDT
    ELSE IF pm = MODE_WDT THEN MODE_BOOSTOFF ELSE pm

PowerModeNoHyst(pm, mv) ==
    IF pm = MODE_BOOSTOFF /\ mv < POWER_MODE_WDT_THRESH
    THEN MODE_WDT
    ELSE IF pm = MODE_WDT /\ mv >= POWER_MODE_WDT_THRESH
         THEN MODE_BOOSTOFF
         ELSE pm

PowerModeUpdate(pm, mv) ==
    IF pm = MODE_BOOSTOFF /\ mv < POWER_MODE_WDT_THRESH
    THEN MODE_WDT
    ELSE IF pm = MODE_WDT /\ mv > POWER_MODE_WDT_THRESH + POWER_MODE_WDT_HYST
         THEN MODE_BOOSTOFF
         ELSE pm

(* ---------------------------------------------------------------------- *)
(* State                                                                   *)
(* ---------------------------------------------------------------------- *)
VARIABLES
    pc,          \* position of the main sequence
    iflag,       \* SREG I: global interrupt enable
    shadow,      \* the instruction after sei() runs before any interrupt
    int0en,      \* GIMSK.INT0
    regOn,       \* regulator enabled (EN_DDR bit clear)
    wdtOn,       \* WDTCSR.WDE
    wdie,        \* WDTCSR.WDIE
    se,          \* MCUCR.SE
    vdetLow,     \* level of the voltage-detect line on INT0
    wakes, seqid, power_mode, batt_mv, packetbuf,
    sleeps,      \* loop counter of the watchdog branch
    ticks,       \* cycle ticks begun since power-on (stops at TickCap)
    txTicks,     \* ticks (up to TickCap) on which rf69_send was called
    txIdx,       \* 0 before the first packet, 1 after it, then 2..26 cyclic
    prevSent,    \* sequence id of the packet sent before the last one (0: none)
    lastSent,    \* sequence id of the last packet sent (0: none)
    lowRun,      \* hysteresis scenario: updates so far, all at Thresh-1
    entry,       \* wakes, seqid, power_mode, packetbuf at the start of the tick
    cnt,         \* what the current tick has done so far
    steps,       \* sleep/wake steps taken since the last tick
    initOk,      \* rf69_init has returned success
    isr,         \* the handler that ran in the last step, and where it ran
    settled,     \* a capacitor charge delay has run since power-on / the last wake
    temp16,      \* last get_temperature() result, in sixteenths of a degree
    initFailed,  \* rf69_init has returned failure at least once
    ripple       \* ripple scenario: lowest and highest reading, mode changes

hw == << iflag, shadow, int0en, regOn, wdtOn, wdie, se >>

prog == << wakes, seqid, power_mode, batt_mv, packetbuf, sleeps >>

hist == << ticks, txTicks, txIdx, prevSent, lastSent, lowRun, entry, cnt, initOk >>

aux == << temp16, initFailed, ripple >>

vars == << pc, hw, vdetLow, prog, hist, steps, isr, settled, aux >>

NoIsr == [who |-> "none", at |-> "none"]

NoRipple == [lo |-> 0, hi |-> 0, changes |-> 0]

ZeroCnt == [volt |-> 0, temp |-> 0, enc |-> 0, send |-> 0, mode |-> 0, seq |-> 0]

Snapshot == [wakes |-> wakes, seqid |-> seqid, power_mode |-> power_mode,
             packetbuf |-> packetbuf]

Bump(f) == [cnt EXCEPT ![f] = @ + 1]

(* Static initialisers and the reset state of the registers *)
Init ==
    /\ pc = "boot"
    /\ iflag = FALSE /\ shadow = FALSE /\ int0en = FALSE
    /\ regOn = TRUE /\ wdtOn = FALSE /\ wdie = FALSE /\ se = FALSE
    /\ vdetLow \in BOOLEAN
    /\ seqid = Ord("a")
    /\ wakes = WAKE_FREQ
    /\ power_mode = MODE_BOOSTOFF
    /\ batt_mv = 0
    /\ packetbuf = << >>
    /\ sleeps = 0
    /\ ticks = 0 /\ txTicks = << >> /\ txIdx = 0
    /\ prevSent = 0 /\ lastSent = 0 /\ lowRun = 0
    /\ entry = [wakes |-> WAKE_FREQ, seqid |-> Ord("a"),
                power_mode |-> MODE_BOOSTOFF, packetbuf |-> << >>]
    /\ cnt = ZeroCnt
    /\ steps = << >>
    /\ initOk = FALSE
    /\ isr = NoIsr
    /\ settled = FALSE
    /\ temp16 = 0
    /\ initFailed = FALSE
    /\ ripple = NoRipple


Min(a, b) == IF a < b THEN a ELSE b

Log(name) == steps' = Append(steps, name)

Asleep == pc \in {"asleep_b", "asleep_w"}

(* where the main sequence continues once a handler has woken the CPU *)
Resume(p) == IF p = "asleep_b" THEN "cli"
             ELSE IF p = "asleep_w" THEN "w_next"
             ELSE p

(* ---------------------------------------------------------------------- *)
(* Start-up: main() lines 88-115                                           *)
(* ---------------------------------------------------------------------- *)
(* wdt_disable, sei, cap charge delay, EN low, REG_ENABLE, pull-ups off,   *)
(* temperature sensor off                                                  *)
Boot ==
    /\ pc = "boot"
    /\ wdtOn' = FALSE /\ wdie' = FALSE
    /\ iflag' = TRUE /\ shadow' = FALSE
    /\ regOn' = TRUE
    /\ pc' = "rf69_init"
    /\ isr' = NoIsr
    /\ settled' = TRUE
    /\ UNCHANGED aux
    /\ UNCHANGED << int0en, se, vdetLow, prog, hist, steps >>

Rf69InitOnce ==
    /\ pc = "rf69_init"
    /\ \E ok \in BOOLEAN :
          /\ initOk' = ok
          /\ initFailed' = (initFailed \/ ~ok)
          /\ pc' = "set_mode"
    /\ shadow' = FALSE
    /\ isr' = NoIsr
    /\ UNCHANGED << settled, temp16, ripple >>
    /\ UNCHANGED << iflag, int0en, regOn, wdtOn, wdie, se, vdetLow, prog, steps,
                    ticks, txTicks, txIdx, prevSent, lastSent, lowRun, entry, cnt >>

(* while(!rf69_init()); *)
Rf69Init ==
    /\ pc = "rf69_init"
    /\ \E ok \in BOOLEAN :
          /\ initOk' = ok
          /\ initFailed' = (initFailed \/ ~ok)
          /\ pc' = IF ok THEN "set_mode" ELSE "rf69_init"
    /\ shadow' = FALSE
    /\ isr' = NoIsr
    /\ UNCHANGED << settled, temp16, ripple >>
    /\ UNCHANGED << iflag, int0en, regOn, wdtOn, wdie, se, vdetLow, prog, steps,
                    ticks, txTicks, txIdx, prevSent, lastSent, lowRun, entry, cnt >>

(* rf69_setMode(RFM69_MODE_SLEEP); PRR |= ... *)
Setup ==
    /\ pc = "set_mode"
    /\ pc' = "loop"
    /\ shadow' = FALSE
    /\ isr' = NoIsr
    /\ UNCHANGED << settled, aux >>
    /\ UNCHANGED << iflag, int0en, regOn, wdtOn, wdie, se, vdetLow, prog, hist, steps >>

(* ---------------------------------------------------------------------- *)
(* The cycle tick: main() lines 122-210                                    *)
(* ---------------------------------------------------------------------- *)
TickBeginLate ==
    /\ pc = "loop"
    /\ pc' = IF wakes = WAKE_FREQ + 1 THEN "t_head" ELSE "t_inc"
    /\ ticks' = Min(ticks + 1, TickCap)
    /\ entry' = Snapshot
    /\ cnt' = ZeroCnt
    /\ steps' = << >>
    /\ shadow' = FALSE
    /\ isr' = NoIsr
    /\ UNCHANGED << settled, aux >>
    /\ UNCHANGED << iflag, int0en, regOn, wdtOn, wdie, se, vdetLow, prog,
                    txTicks, txIdx, prevSent, lastSent, lowRun, initOk >>

(* if(wakes == WAKE_FREQ) *)
TickBegin ==
    /\ pc = "loop"
    /\ pc' = IF wakes = WAKE_FREQ THEN "t_head" ELSE "t_inc"
    /\ ticks' = Min(ticks + 1, TickCap)
    /\ entry' = Snapshot
    /\ cnt' = ZeroCnt
    /\ steps' = << >>
    /\ shadow' = FALSE
    /\ isr' = NoIsr
    /\ UNCHANGED << settled, aux >>
    /\ UNCHANGED << iflag, int0en, regOn, wdtOn, wdie, se, vdetLow, prog,
                    txTicks, txIdx, prevSent, lastSent, lowRun, initOk >>

THeadNoReset ==
    /\ pc = "t_head"
    /\ packetbuf' = packetbuf \o PktHead(seqid)
    /\ pc' = "t_volt"
    /\ shadow' = FALSE
    /\ isr' = NoIsr
    /\ UNCHANGED << settled, aux >>
    /\ UNCHANGED << iflag, int0en, regOn, wdtOn, wdie, se, vdetLow,
                    wakes, seqid, power_mode, batt_mv, sleeps, hist, steps >>

(* p = packetbuf; hops; sequence id *)
THead ==
    /\ pc = "t_head"
    /\ packetbuf' = PktHead(seqid)
    /\ pc' = "t_volt"
    /\ shadow' = FALSE
    /\ isr' = NoIsr
    /\ UNCHANGED << settled, aux >>
    /\ UNCHANGED << iflag, int0en, regOn, wdtOn, wdie, se, vdetLow,
                    wakes, seqid, power_mode, batt_mv, sleeps, hist, steps >>

(* 'V', batt_mv = get_batt_voltage(), utoa *)
TVolt ==
    /\ pc = "t_volt"
    /\ \E r \in AdcVals :
          /\ batt_mv' = get_batt_voltage(r)
          /\ packetbuf' = packetbuf \o PktVolt(get_batt_voltage(r))
    /\ cnt' = Bump("volt")
    /\ pc' = "t_temp"
    /\ shadow' = FALSE
    /\ isr' = NoIsr
    /\ UNCHANGED << settled, aux >>
    /\ UNCHANGED << iflag, int0en, regOn, wdtOn, wdie, se, vdetLow,
                    wakes, seqid, power_mode, sleeps, steps,
                    ticks, txTicks, txIdx, prevSent, lastSent, lowRun, entry, initOk >>

(* 'T', dtostrf(get_temperature(), 1, 1, p) *)
TTemp ==
    /\ pc = "t_temp"
    /\ \E t16 \in Temp16s :
          /\ temp16' = t16
          /\ packetbuf' = packetbuf \o PktTemp(t16)
    /\ cnt' = Bump("temp")
    /\ pc' = "t_tail"
    /\ shadow' = FALSE
    /\ isr' = NoIsr
    /\ UNCHANGED << settled, initFailed, ripple >>
    /\ UNCHANGED << iflag, int0en, regOn, wdtOn, wdie, se, vdetLow,
                    wakes, seqid, power_mode, batt_mv, sleeps, steps,
                    ticks, txTicks, txIdx, prevSent, lastSent, lowRun, entry, initOk >>

TTailNewMode ==
    /\ pc = "t_tail"
    /\ packetbuf' = packetbuf \o PktTail(PowerModeUpdate(power_mode, batt_mv))
    /\ cnt' = Bump("enc")
    /\ pc' = "t_send"
    /\ shadow' = FALSE
    /\ isr' = NoIsr
    /\ UNCHANGED << settled, aux >>
    /\ UNCHANGED << iflag, int0en, regOn, wdtOn, wdie, se, vdetLow,
                    wakes, seqid, power_mode, batt_mv, sleeps, steps,
                    ticks, txTicks, txIdx, prevSent, lastSent, lowRun, entry, initOk >>

(* X field, node id in [], terminating NUL *)
TTail ==
    /\ pc = "t_tail"
    /\ packetbuf' = packetbuf \o PktTail(power_mode)
    /\ cnt' = Bump("enc")
    /\ pc' = "t_send"
    /\ shadow' = FALSE
    /\ isr' = NoIsr
    /\ UNCHANGED << settled, aux >>
    /\ UNCHANGED << iflag, int0en, regOn, wdtOn, wdie, se, vdetLow,
                    wakes, seqid, power_mode, batt_mv, sleeps, steps,
                    ticks, txTicks, txIdx, prevSent, lastSent, lowRun, entry, initOk >>

TSendRetry ==
    /\ pc = "t_send"
    /\ cnt' = Bump("send")
    /\ txTicks' = IF ticks < TickCap THEN Append(txTicks, ticks) ELSE txTicks
    /\ txIdx' = IF txIdx = 0 THEN 1 ELSE IF txIdx = 26 THEN 2 ELSE txIdx + 1
    /\ prevSent' = lastSent
    /\ lastSent' = Ord(packetbuf[Len(HOPS) + 1])
    /\ \E sent \in BOOLEAN : pc' = IF sent \/ cnt.send >= 1 THEN "t_update" ELSE "t_send"
    /\ shadow' = FALSE
    /\ isr' = NoIsr
    /\ UNCHANGED << settled, aux >>
    /\ UNCHANGED << iflag, int0en, regOn, wdtOn, wdie, se, vdetLow, prog, steps,
                    ticks, lowRun, entry, initOk >>

(* rf69_send(packetbuf, strlen(packetbuf), TX_POWER_DBM); _delay_ms(10).   *)
(* rf69_send returns nothing: whatever the radio does, main() goes on.     *)
TSend ==
    /\ pc = "t_send"
    /\ cnt' = Bump("send")
    /\ txTicks' = IF ticks < TickCap THEN Append(txTicks, ticks) ELSE txTicks
    /\ txIdx' = IF txIdx = 0 THEN 1 ELSE IF txIdx = 26 THEN 2 ELSE txIdx + 1
    /\ prevSent' = lastSent
    /\ lastSent' = Ord(packetbuf[Len(HOPS) + 1])
    /\ pc' = "t_update"
    /\ shadow' = FALSE
    /\ isr' = NoIsr
    /\ UNCHANGED << settled, aux >>
    /\ UNCHANGED << iflag, int0en, regOn, wdtOn, wdie, se, vdetLow, prog, steps,
                    ticks, lowRun, entry, initOk >>

TUpdateZero ==
    /\ pc = "t_update"
    /\ wakes' = 0
    /\ seqid' = NextSeqid(seqid)
    /\ power_mode' = PowerModeUpdate(power_mode, batt_mv)
    /\ cnt' = [cnt EXCEPT
                 !.seq = @ + (IF NextSeqid(seqid) # seqid THEN 1 ELSE 0),
                 !.mode = @ + (IF PowerModeUpdate(power_mode, batt_mv) # power_mode
                               THEN 1 ELSE 0)]
    /\ pc' = "tick_end"
    /\ shadow' = FALSE
    /\ isr' = NoIsr
    /\ UNCHANGED << settled, aux >>
    /\ UNCHANGED << iflag, int0en, regOn, wdtOn, wdie, se, vdetLow,
                    batt_mv, packetbuf, sleeps, steps,
                    ticks, txTicks, txIdx, prevSent, lastSent, lowRun, entry, initOk >>

(* wakes = 1; sequence id advance; power mode update *)
TUpdate ==
    /\ pc = "t_update"
    /\ wakes' = 1
    /\ seqid' = NextSeqid(seqid)
    /\ power_mode' = PowerModeUpdate(power_mode, batt_mv)
    /\ cnt' = [cnt EXCEPT
                 !.seq = @ + (IF NextSeqid(seqid) # seqid THEN 1 ELSE 0),
                 !.mode = @ + (IF PowerModeUpdate(power_mode, batt_mv) # power_mode
                               THEN 1 ELSE 0)]
    /\ pc' = "tick_end"
    /\ shadow' = FALSE
    /\ isr' = NoIsr
    /\ UNCHANGED << settled, aux >>
    /\ UNCHANGED << iflag, int0en, regOn, wdtOn, wdie, se, vdetLow,
                    batt_mv, packetbuf, sleeps, steps,
                    ticks, txTicks, txIdx, prevSent, lastSent, lowRun, entry, initOk >>

TIncResample ==
    /\ pc = "t_inc"
    /\ wakes' = (wakes + 1) % 256
    /\ \E r \in AdcVals :
          /\ batt_mv' = get_batt_voltage(r)
          /\ power_mode' = PowerModeUpdate(power_mode, get_batt_voltage(r))
          /\ cnt' = [cnt EXCEPT
                       !.volt = @ + 1,
                       !.mode = @ + (IF PowerModeUpdate(power_mode, get_batt_voltage(r))
                                        # power_mode THEN 1 ELSE 0)]
    /\ pc' = "tick_end"
    /\ shadow' = FALSE
    /\ isr' = NoIsr
    /\ UNCHANGED << settled, aux >>
    /\ UNCHANGED << iflag, int0en, regOn, wdtOn, wdie, se, vdetLow,
                    seqid, packetbuf, sleeps, steps,
                    ticks, txTicks, txIdx, prevSent, lastSent, lowRun, entry, initOk >>

(* else wakes++ *)
TInc ==
    /\ pc = "t_inc"
    /\ wakes' = (wakes + 1) % 256
    /\ pc' = "tick_end"
    /\ shadow' = FALSE
    /\ isr' = NoIsr
    /\ UNCHANGED << settled, aux >>
    /\ UNCHANGED << iflag, int0en, regOn, wdtOn, wdie, se, vdetLow,
                    seqid, power_mode, batt_mv, packetbuf, sleeps, hist, steps >>

(* if(power_mode == MODE_BOOSTOFF) ... else ... *)
Dispatch ==
    /\ pc = "tick_end"
    /\ pc' = IF power_mode = MODE_BOOSTOFF THEN "arm_int0" ELSE "sleep_enable_w"
    /\ shadow' = FALSE
    /\ isr' = NoIsr
    /\ UNCHANGED << settled, aux >>
    /\ UNCHANGED << iflag, int0en, regOn, wdtOn, wdie, se, vdetLow, prog, hist, steps >>


(* ---------------------------------------------------------------------- *)
(* Voltage-detect sleep (MODE_BOOSTOFF): main() lines 213-231              *)
(* ---------------------------------------------------------------------- *)
ArmInt0SkipsSe ==
    /\ pc = "arm_int0"
    /\ int0en' = TRUE
    /\ Log("arm_int0")
    /\ pc' = "reg_disable"
    /\ shadow' = FALSE
    /\ isr' = NoIsr
    /\ UNCHANGED << settled, aux >>
    /\ UNCHANGED << iflag, regOn, wdtOn, wdie, se, vdetLow, prog, hist >>

(* MCUCR &= ~(ISC01|ISC00); GIMSK |= INT0 *)
ArmInt0 ==
    /\ pc = "arm_int0"
    /\ int0en' = TRUE
    /\ Log("arm_int0")
    /\ pc' = "sleep_enable_b"
    /\ shadow' = FALSE
    /\ isr' = NoIsr
    /\ UNCHANGED << settled, aux >>
    /\ UNCHANGED << iflag, regOn, wdtOn, wdie, se, vdetLow, prog, hist >>

(* set_sleep_mode(SLEEP_MODE_PWR_DOWN); sleep_enable() *)
SleepEnableB ==
    /\ pc = "sleep_enable_b"
    /\ se' = TRUE
    /\ Log("sleep_enable")
    /\ pc' = "reg_disable"
    /\ shadow' = FALSE
    /\ isr' = NoIsr
    /\ UNCHANGED << settled, aux >>
    /\ UNCHANGED << iflag, int0en, regOn, wdtOn, wdie, vdetLow, prog, hist >>

(* REG_DISABLE() *)
RegDisable ==
    /\ pc = "reg_disable"
    /\ regOn' = FALSE
    /\ Log("reg_disable")
    /\ pc' = "sei"
    /\ shadow' = FALSE
    /\ isr' = NoIsr
    /\ UNCHANGED << settled, aux >>
    /\ UNCHANGED << iflag, int0en, wdtOn, wdie, se, vdetLow, prog, hist >>

(* sei(): interrupts that were masked stay masked for one more instruction *)
Sei ==
    /\ pc = "sei"
    /\ iflag' = TRUE
    /\ shadow' = ~iflag
    /\ Log("sei")
    /\ pc' = "sleep_cpu_b"
    /\ isr' = NoIsr
    /\ UNCHANGED << settled, aux >>
    /\ UNCHANGED << int0en, regOn, wdtOn, wdie, se, vdetLow, prog, hist >>

SleepCpuBNop ==
    /\ pc = "sleep_cpu_b"
    /\ Log("sleep")
    /\ pc' = "cli"
    /\ shadow' = FALSE
    /\ isr' = NoIsr
    /\ UNCHANGED << settled, aux >>
    /\ UNCHANGED << iflag, int0en, regOn, wdtOn, wdie, se, vdetLow, prog, hist >>

(* sleep_cpu(): the SLEEP instruction does nothing unless SE is set *)
SleepCpuB ==
    /\ pc = "sleep_cpu_b"
    /\ Log("sleep")
    /\ pc' = IF se THEN "asleep_b" ELSE "cli"
    /\ shadow' = FALSE
    /\ isr' = NoIsr
    /\ UNCHANGED << settled, aux >>
    /\ UNCHANGED << iflag, int0en, regOn, wdtOn, wdie, se, vdetLow, prog, hist >>

(* cli() *)
Cli ==
    /\ pc = "cli"
    /\ iflag' = FALSE
    /\ Log("cli")
    /\ pc' = "gimsk_clear"
    /\ shadow' = FALSE
    /\ isr' = NoIsr
    /\ UNCHANGED << settled, aux >>
    /\ UNCHANGED << int0en, regOn, wdtOn, wdie, se, vdetLow, prog, hist >>

(* GIMSK = 0x00 *)
GimskClear ==
    /\ pc = "gimsk_clear"
    /\ int0en' = FALSE
    /\ Log("gimsk_clear")
    /\ pc' = "sleep_disable_b"
    /\ shadow' = FALSE
    /\ isr' = NoIsr
    /\ UNCHANGED << settled, aux >>
    /\ UNCHANGED << iflag, regOn, wdtOn, wdie, se, vdetLow, prog, hist >>

(* sleep_disable() *)
SleepDisableB ==
    /\ pc = "sleep_disable_b"
    /\ se' = FALSE
    /\ Log("sleep_disable")
    /\ pc' = "delay_b"
    /\ shadow' = FALSE
    /\ isr' = NoIsr
    /\ UNCHANGED << settled, aux >>
    /\ UNCHANGED << iflag, int0en, regOn, wdtOn, wdie, vdetLow, prog, hist >>

DelayBNone ==
    /\ pc = "delay_b"
    /\ Log("delay")
    /\ pc' = "loop"
    /\ shadow' = FALSE
    /\ isr' = NoIsr
    /\ UNCHANGED << settled, aux >>
    /\ UNCHANGED << iflag, int0en, regOn, wdtOn, wdie, se, vdetLow, prog, hist >>

(* _delay_ms(50) *)
DelayB ==
    /\ pc = "delay_b"
    /\ Log("delay")
    /\ pc' = "loop"
    /\ shadow' = FALSE
    /\ isr' = NoIsr
    /\ settled' = TRUE
    /\ UNCHANGED aux
    /\ UNCHANGED << iflag, int0en, regOn, wdtOn, wdie, se, vdetLow, prog, hist >>

(* ---------------------------------------------------------------------- *)
(* Watchdog sleep (MODE_WDT): main() lines 232-244                         *)
(* ---------------------------------------------------------------------- *)
(* set_sleep_mode(SLEEP_MODE_PWR_DOWN); sleep_enable(); sleeps = 0 *)
SleepEnableW ==
    /\ pc = "sleep_enable_w"
    /\ se' = TRUE
    /\ sleeps' = 0
    /\ Log("sleep_enable")
    /\ pc' = "w_loop"
    /\ shadow' = FALSE
    /\ isr' = NoIsr
    /\ UNCHANGED << settled, aux >>
    /\ UNCHANGED << iflag, int0en, regOn, wdtOn, wdie, vdetLow,
                    wakes, seqid, power_mode, batt_mv, packetbuf, hist >>

WLoopNine ==
    /\ pc = "w_loop"
    /\ pc' = IF sleeps <= WDT_ROUNDS THEN "wdt_enable" ELSE "sleep_disable_w"
    /\ shadow' = FALSE
    /\ isr' = NoIsr
    /\ UNCHANGED << settled, aux >>
    /\ UNCHANGED << iflag, int0en, regOn, wdtOn, wdie, se, vdetLow, prog, hist, steps >>

(* sleeps < 8 *)
WLoop ==
    /\ pc = "w_loop"
    /\ pc' = IF sleeps < WDT_ROUNDS THEN "wdt_enable" ELSE "sleep_disable_w"
    /\ shadow' = FALSE
    /\ isr' = NoIsr
    /\ UNCHANGED << settled, aux >>
    /\ UNCHANGED << iflag, int0en, regOn, wdtOn, wdie, se, vdetLow, prog, hist, steps >>

(* wdt_enable(WDTO_8S): writes WDE and the prescaler, SREG is restored *)
WdtEnable ==
    /\ pc = "wdt_enable"
    /\ wdtOn' = TRUE
    /\ wdie' = FALSE
    /\ Log("wdt_enable")
    /\ pc' = "wdie"
    /\ shadow' = FALSE
    /\ isr' = NoIsr
    /\ UNCHANGED << settled, aux >>
    /\ UNCHANGED << iflag, int0en, regOn, se, vdetLow, prog, hist >>

(* WDTCSR |= (1 << WDIE) *)
WdtIe ==
    /\ pc = "wdie"
    /\ wdie' = TRUE
    /\ Log("wdie")
    /\ pc' = "sleep_cpu_w"
    /\ shadow' = FALSE
    /\ isr' = NoIsr
    /\ UNCHANGED << settled, aux >>
    /\ UNCHANGED << iflag, int0en, regOn, wdtOn, se, vdetLow, prog, hist >>

(* sleep_cpu() *)
SleepCpuW ==
    /\ pc = "sleep_cpu_w"
    /\ Log("sleep")
    /\ pc' = IF se THEN "asleep_w" ELSE "w_next"
    /\ shadow' = FALSE
    /\ isr' = NoIsr
    /\ UNCHANGED << settled, aux >>
    /\ UNCHANGED << iflag, int0en, regOn, wdtOn, wdie, se, vdetLow, prog, hist >>

(* sleeps++ *)
WNext ==
    /\ pc = "w_next"
    /\ sleeps' = sleeps + 1
    /\ pc' = "w_loop"
    /\ shadow' = FALSE
    /\ isr' = NoIsr
    /\ UNCHANGED << settled, aux >>
    /\ UNCHANGED << iflag, int0en, regOn, wdtOn, wdie, se, vdetLow,
                    wakes, seqid, power_mode, batt_mv, packetbuf, hist, steps >>

(* sleep_disable() *)
SleepDisableW ==
    /\ pc = "sleep_disable_w"
    /\ se' = FALSE
    /\ Log("sleep_disable")
    /\ pc' = "loop"
    /\ shadow' = FALSE
    /\ isr' = NoIsr
    /\ UNCHANGED << settled, aux >>
    /\ UNCHANGED << iflag, int0en, regOn, wdtOn, wdie, vdetLow, prog, hist >>

(* ---------------------------------------------------------------------- *)
(* Interrupt handlers: main.c lines 304-315                                *)
(* ---------------------------------------------------------------------- *)
EXT_INT0_NoEnable ==
    /\ iflag /\ ~shadow /\ int0en /\ vdetLow
    /\ pc' = Resume(pc)
    /\ isr' = [who |-> "int0", at |-> pc]
    /\ settled' = (settled /\ ~Asleep)
    /\ UNCHANGED << iflag, shadow, int0en, regOn, wdtOn, wdie, se, vdetLow,
                    prog, hist, steps, aux >>

(* INT0 is a low-level interrupt: it is requested while the line is low.   *)
(* A handler runs only with I set and INT0 enabled in GIMSK; a sleeping    *)
(* CPU resumes after the handler returns.                                  *)
EXT_INT0_vect ==
    /\ iflag /\ ~shadow /\ int0en /\ vdetLow
    /\ regOn' = TRUE
    /\ pc' = Resume(pc)
    /\ isr' = [who |-> "int0", at |-> pc]
    /\ settled' = (settled /\ ~Asleep)
    /\ UNCHANGED << iflag, shadow, int0en, wdtOn, wdie, se, vdetLow, prog, hist, steps, aux >>

WATCHDOG_CountsWake ==
    /\ iflag /\ ~shadow /\ wdtOn /\ wdie
    /\ Asleep
    /\ wdtOn' = FALSE
    /\ wdie' = FALSE
    /\ wakes' = IF wakes < WAKE_FREQ THEN wakes + 1 ELSE wakes
    /\ pc' = Resume(pc)
    /\ isr' = [who |-> "wdt", at |-> pc]
    /\ settled' = (settled /\ ~Asleep)
    /\ UNCHANGED << iflag, shadow, int0en, regOn, se, vdetLow,
                    seqid, power_mode, batt_mv, packetbuf, sleeps, hist, steps, aux >>

WATCHDOG_NoDisable ==
    /\ iflag /\ ~shadow /\ wdtOn /\ wdie
    /\ Asleep
    /\ pc' = Resume(pc)
    /\ isr' = [who |-> "wdt", at |-> pc]
    /\ settled' = (settled /\ ~Asleep)
    /\ UNCHANGED << iflag, shadow, int0en, regOn, wdtOn, wdie, se, vdetLow,
                    prog, hist, steps, aux >>

(* The watchdog is armed with an 8 s period immediately before the SLEEP   *)
(* instruction, so it expires only while the CPU is asleep.                *)
WATCHDOG_vect ==
    /\ iflag /\ ~shadow /\ wdtOn /\ wdie
    /\ Asleep
    /\ wdtOn' = FALSE
    /\ wdie' = FALSE
    /\ pc' = Resume(pc)
    /\ isr' = [who |-> "wdt", at |-> pc]
    /\ settled' = (settled /\ ~Asleep)
    /\ UNCHANGED << iflag, shadow, int0en, regOn, se, vdetLow, prog, hist, steps, aux >>

(* ---------------------------------------------------------------------- *)
(* The voltage-detect line: the reservoir capacitor drains while the       *)
(* regulator is off and recharges while it is on.                          *)
(* ---------------------------------------------------------------------- *)
VdetFall ==
    /\ ~regOn /\ ~vdetLow
    /\ vdetLow' = TRUE
    /\ UNCHANGED << pc, hw, prog, hist, steps, isr, settled, aux >>

VdetRise ==
    /\ regOn /\ vdetLow
    /\ vdetLow' = FALSE
    /\ UNCHANGED << pc, hw, prog, hist, steps, isr, settled, aux >>

Next ==
    \/ Boot \/ Rf69Init \/ Setup
    \/ TickBegin \/ THead \/ TVolt \/ TTemp \/ TTail \/ TSend \/ TUpdate \/ TInc
    \/ Dispatch
    \/ ArmInt0 \/ SleepEnableB \/ RegDisable \/ Sei \/ SleepCpuB
    \/ Cli \/ GimskClear \/ SleepDisableB \/ DelayB
    \/ SleepEnableW \/ WLoop \/ WdtEnable \/ WdtIe \/ SleepCpuW \/ WNext
    \/ SleepDisableW
    \/ EXT_INT0_vect \/ WATCHDOG_vect
    \/ VdetFall \/ VdetRise

Spec == Init /\ [][Next]_vars

(* ---------------------------------------------------------------------- *)
(* The power-mode update on its own: any mode, any millivolt reading near  *)
(* the two thresholds, applied repeatedly.                                 *)
(* ---------------------------------------------------------------------- *)
MvInputs ==
    (POWER_MODE_WDT_THRESH - MvSpan) ..
    (POWER_MODE_WDT_THRESH + POWER_MODE_WDT_HYST + MvSpan)

InitMode ==
    /\ pc = "t_update"
    /\ iflag = TRUE /\ shadow = FALSE /\ int0en = FALSE
    /\ regOn = TRUE /\ wdtOn = FALSE /\ wdie = FALSE /\ se = FALSE
    /\ vdetLow = FALSE
    /\ seqid = Ord("a")
    /\ wakes = WAKE_FREQ
    /\ power_mode \in {MODE_WDT, MODE_BOOSTOFF}
    /\ batt_mv = 0
    /\ packetbuf = << >>
    /\ sleeps = 0
    /\ ticks = 0 /\ txTicks = << >> /\ txIdx = 0
    /\ prevSent = 0 /\ lastSent = 0 /\ lowRun = 0
    /\ entry = [wakes |-> WAKE_FREQ, seqid |-> Ord("a"),
                power_mode |-> power_mode, packetbuf |-> << >>]
    /\ cnt = ZeroCnt
    /\ steps = << >>
    /\ initOk = TRUE
    /\ isr = NoIsr
    /\ settled = TRUE
    /\ temp16 = 0
    /\ initFailed = FALSE
    /\ ripple = NoRipple

(* one update: lines 195-204 with batt_mv as the input *)
ModeStep ==
    /\ pc = "t_update"
    /\ \E mv \in MvInputs :
          /\ batt_mv' = mv
          /\ power_mode' = PowerModeUpdate(power_mode, mv)
          /\ lowRun' = IF mv # POWER_MODE_WDT_THRESH - 1 THEN 0
                       ELSE IF lowRun > 0 THEN Min(lowRun + 1, RunCap)
                       ELSE IF power_mode = MODE_BOOSTOFF THEN 1 ELSE 0
    /\ entry' = Snapshot
    /\ ticks' = Min(ticks + 1, TickCap)
    /\ UNCHANGED << pc, hw, vdetLow, wakes, seqid, packetbuf, sleeps,
                    txTicks, txIdx, prevSent, lastSent, cnt, initOk, steps,
                    isr, settled, aux >>

NextMode == ModeStep

SpecMode == InitMode /\ [][NextMode]_vars


(* ====================================================================== *)
(* Properties                                                              *)
(* ====================================================================== *)
InTick == pc \in {"t_head", "t_volt", "t_temp", "t_tail", "t_send", "t_update", "t_inc"}

(* a tick has run to its end and the next one has not begun *)
TickDone == ticks > 0 /\ ~InTick

IsPrefix(s, t) == Len(s) <= Len(t) /\ s = SubSeq(t, 1, Len(s))

(* C1: in every reachable state the wake counter satisfies                 *)
(* 1 <= wakes <= WAKE_FREQ.                                                *)
C1_WakesInRange == 1 <= wakes /\ wakes <= WAKE_FREQ

C1_Witness == pc = "tick_end" /\ wakes = WAKE_FREQ /\ txIdx >= 2

(* C2: a tick entered with wakes = WAKE_FREQ samples the voltage once,     *)
(* samples the temperature once, encodes one packet, calls rf69_send       *)
(* exactly once (never a second time) and leaves wakes = 1.                *)
C2_TransmitTick ==
    /\ cnt.volt <= 1 /\ cnt.temp <= 1 /\ cnt.enc <= 1 /\ cnt.send <= 1
    /\ (TickDone /\ entry.wakes = WAKE_FREQ) =>
          /\ cnt.volt = 1 /\ cnt.temp = 1 /\ cnt.enc = 1 /\ cnt.send = 1
          /\ wakes = 1

C2_Witness == pc = "tick_end" /\ entry.wakes = WAKE_FREQ /\ cnt.send = 1 /\ txIdx >= 2

(* C3: a tick entered with wakes in 1..WAKE_FREQ-1 sets wakes to wakes+1,  *)
(* samples, encodes and transmits nothing and leaves seqid, power_mode     *)
(* and the packet buffer unchanged.                                        *)
C3_IdleTick ==
    (TickDone /\ entry.wakes \in 1..(WAKE_FREQ - 1)) =>
        /\ wakes = entry.wakes + 1
        /\ cnt = ZeroCnt
        /\ seqid = entry.seqid
        /\ power_mode = entry.power_mode
        /\ packetbuf = entry.packetbuf

C3_Witness == pc = "tick_end" /\ entry.wakes = WAKE_FREQ - 1 /\ wakes = WAKE_FREQ

(* C4 as stated: after 12 cycle ticks from power-on there have been        *)
(* exactly 2 transmissions, on ticks 5 and 10.                             *)
C4_TwoTransmissions == (ticks = 12 /\ pc = "tick_end") => txTicks = << 5, 10 >>

(* C4 amended: after 12 cycle ticks from power-on there have been exactly  *)
(* 3 transmissions, on ticks 1, 6 and 11.                                  *)
C4_ThreeTransmissions == (ticks = 12 /\ pc = "tick_end") => txTicks = << 1, 6, 11 >>

C4_Witness == ticks = 12 /\ pc = "tick_end" /\ Len(txTicks) = 3

(* C5: the packets carry the sequence ids a, b, ..., z, b, c, ...: the     *)
(* first carries 'a', no later one does, seqid stays within 'a'..'z', it   *)
(* changes exactly once per transmission, after the encoding, and each     *)
(* packet's id differs from that of the packet before it.                  *)
C5_SequenceIds ==
    /\ seqid \in Ord("a") .. Ord("z")
    /\ lastSent # 0 => lastSent = Ord(Alphabet[txIdx])
    /\ txIdx = 1 => lastSent = Ord("a")
    /\ txIdx >= 2 => lastSent # Ord("a")
    /\ prevSent # 0 => lastSent # prevSent
    /\ cnt.seq <= 1
    /\ cnt.seq = 1 => (cnt.enc = 1 /\ cnt.send = 1 /\ seqid # entry.seqid)
    /\ cnt.seq = 0 => seqid = entry.seqid
    /\ (TickDone /\ entry.wakes = WAKE_FREQ) => cnt.seq = 1

C5_Witness == prevSent = Ord("z") /\ lastSent = Ord("b") /\ pc = "tick_end"

(* C6: the power-mode update as a function of (mode, millivolts):          *)
(* MODE_BOOSTOFF becomes MODE_WDT iff v < THRESH, MODE_WDT becomes         *)
(* MODE_BOOSTOFF iff v > THRESH + HYST, and in every other case the mode   *)
(* is unchanged.                                                           *)
C6_Hysteresis ==
    ticks > 0 =>
        /\ power_mode \in {MODE_WDT, MODE_BOOSTOFF}
        /\ entry.power_mode = MODE_BOOSTOFF =>
              (power_mode = MODE_WDT <=> batt_mv < POWER_MODE_WDT_THRESH)
        /\ entry.power_mode = MODE_WDT =>
              (power_mode = MODE_BOOSTOFF <=>
                  batt_mv > POWER_MODE_WDT_THRESH + POWER_MODE_WDT_HYST)

C6_Witness ==
    /\ ticks > 0
    /\ entry.power_mode = MODE_WDT
    /\ batt_mv = POWER_MODE_WDT_THRESH + POWER_MODE_WDT_HYST
    /\ power_mode = MODE_WDT

(* C7: power_mode changes only in a transmit cycle (a tick entered with    *)
(* wakes = WAKE_FREQ) and at most once in it; no other step of the main    *)
(* sequence, sleep or handler changes it.                                  *)
C7_ModeChangeOnlyOnTransmit ==
    [][ power_mode' # power_mode =>
            (InTick /\ entry.wakes = WAKE_FREQ /\ cnt.mode = 0 /\ cnt'.mode = 1) ]_vars

C7_Witness == pc = "asleep_w" /\ cnt.mode = 1 /\ power_mode # entry.power_mode

(* C8: from MODE_BOOSTOFF, consecutive updates that all read THRESH - 1 mV *)
(* give MODE_WDT after the first and after each of the following ones.     *)
C8_StaysInWdt == lowRun >= 1 => power_mode = MODE_WDT

C8_Witness == lowRun >= 10 /\ power_mode = MODE_WDT

(* C9: whenever the CPU is put to sleep, global interrupts are enabled     *)
(* and the wake source of the current strategy is armed (INT0 in the       *)
(* voltage-detect strategy, the watchdog interrupt in the watchdog one).   *)
C9_SleepArmed ==
    /\ pc = "asleep_b" => (iflag /\ int0en)
    /\ pc = "asleep_w" => (iflag /\ wdtOn /\ wdie)

(* C10: in the voltage-detect strategy the steps before each sleep are     *)
(* arm INT0, enable sleep, disable the regulator, enable interrupts,       *)
(* sleep; after each wake they are mask interrupts, clear GIMSK, disable   *)
(* sleep; the next tick begins only after the wake sequence is complete.   *)
SleepOrderB == << "arm_int0", "sleep_enable", "reg_disable", "sei", "sleep" >>

WakeOrderB == << "cli", "gimsk_clear", "sleep_disable" >>

C10_SleepWakeOrder ==
    /\ pc = "asleep_b" => steps = SleepOrderB
    /\ (steps # << >> /\ Head(steps) = "arm_int0") =>
          IsPrefix(steps, SleepOrderB \o WakeOrderB \o << "delay" >>)
    /\ (pc = "loop" /\ ticks > 0 /\ power_mode = MODE_BOOSTOFF) =>
          /\ steps = SleepOrderB \o WakeOrderB \o << "delay" >>
          /\ ~iflag /\ ~int0en /\ ~se

C10_Witness ==
    pc = "loop" /\ steps = SleepOrderB \o WakeOrderB \o << "delay" >> /\ txIdx >= 2


(* C11: the voltage-detect handler runs only while the main sequence is    *)
(* at the sleep call: never between the arming of INT0 and the entry into  *)
(* sleep, and never during a cycle tick.                                   *)
C11_HandlerOnlyAsleep == isr.who = "int0" => isr.at = "asleep_b"

(* ---------------------------------------------------------------------- *)
(* Progress: the main sequence keeps running (every driver call and delay  *)
(* returns), rf69_init eventually succeeds, the voltage-detect line        *)
(* eventually falls while the regulator is off, and a requested handler    *)
(* eventually runs.                                                        *)
(* ---------------------------------------------------------------------- *)
MainStep ==
    \/ Boot \/ Setup
    \/ TickBegin \/ THead \/ TVolt \/ TTemp \/ TTail \/ TSend \/ TUpdate \/ TInc
    \/ Dispatch
    \/ ArmInt0 \/ SleepEnableB \/ RegDisable \/ Sei \/ SleepCpuB
    \/ Cli \/ GimskClear \/ SleepDisableB \/ DelayB
    \/ SleepEnableW \/ WLoop \/ WdtEnable \/ WdtIe \/ SleepCpuW \/ WNext
    \/ SleepDisableW

SpecLive ==
    /\ Init /\ [][Next]_vars
    /\ WF_vars(MainStep)
    /\ WF_vars(Rf69Init /\ initOk')
    /\ WF_vars(VdetFall)
    /\ WF_vars(EXT_INT0_vect)
    /\ WF_vars(WATCHDOG_vect)

(* C12: the node never gets stuck: every sleep is eventually followed by   *)
(* a wake and every transmission by another transmission.                  *)
C12_NeverStuck ==
    /\ [](Asleep => <>(~Asleep))
    /\ [](pc = "t_update" => <>(pc = "t_send"))


(* C13: the regulator is never disabled in watchdog mode: whenever         *)
(* power_mode = MODE_WDT the regulator-enable output is enabled.           *)
C13_RegOnInWdt == power_mode = MODE_WDT => regOn

C13_Witness == power_mode = MODE_WDT /\ regOn /\ ~iflag /\ pc = "asleep_w"

(* C14: neither handler changes wakes, seqid, power_mode, batt_mv or the   *)
(* packet buffer; the INT0 handler changes only the regulator output       *)
(* (to enabled), the watchdog handler only the watchdog's enabled state.   *)
C14_HandlerFrame ==
    [][ (isr' # isr /\ isr'.who # "none") =>
            /\ UNCHANGED << wakes, seqid, power_mode, batt_mv, packetbuf >>
            /\ UNCHANGED << iflag, int0en, se >>
            /\ isr'.who = "int0" => (regOn' /\ UNCHANGED << wdtOn, wdie >>)
            /\ isr'.who = "wdt" => (~wdtOn' /\ UNCHANGED regOn) ]_vars

C14_Witness == isr.who = "wdt" /\ isr.at = "asleep_w" /\ pc = "w_next" /\ ~wdtOn

(* C15 as stated: hops "1", seqid 'a', 3180 mV, 21.4 C and node id "JH9"   *)
(* are encoded as 1aV3180T21.4[JH9].                                       *)
C15_Inputs ==
    /\ cnt.enc = 1
    /\ entry.seqid = Ord("a")
    /\ batt_mv = 3180
    /\ temp16 = 343

C15_ShortPacket ==
    C15_Inputs =>
        packetbuf = << "1", "a", "V", "3", "1", "8", "0", "T", "2", "1", ".", "4",
                       "[", "J", "H", "9", "]" >>

(* C15 amended: these inputs are encoded as 1aV3180T21.4X5,10,1[JH9]: the  *)
(* X field is always written, and the mode is MODE_BOOSTOFF (1) whenever   *)
(* the sequence id is 'a'.                                                 *)
C15_ExtendedPacket ==
    C15_Inputs =>
        packetbuf = << "1", "a", "V", "3", "1", "8", "0", "T", "2", "1", ".", "4",
                       "X", "5", ",", "1", "0", ",", "1",
                       "[", "J", "H", "9", "]" >>

C15_Witness == C15_Inputs /\ pc = "t_send"

(* ---------------------------------------------------------------------- *)
(* The packet encoder on its own: lines 137-176 with any sequence id,      *)
(* either power mode, voltages of one to five digits and temperatures up   *)
(* to sign + three integer digits.                                         *)
(* ---------------------------------------------------------------------- *)
PacketBufSize == 64

EncMv == {0, 9, 10, 999, 3180, 65535}

(* 0.0, -0.5, 21.4, -125.0, 999.9 and -999.5 degrees *)
EncTemp16 == {0, -8, 343, -2000, 15999, -15992}

InitEnc ==
    /\ pc = "t_head"
    /\ iflag = TRUE /\ shadow = FALSE /\ int0en = FALSE
    /\ regOn = TRUE /\ wdtOn = FALSE /\ wdie = FALSE /\ se = FALSE
    /\ vdetLow = FALSE
    /\ seqid \in Ord("a") .. Ord("z")
    /\ wakes = WAKE_FREQ
    /\ power_mode \in {MODE_WDT, MODE_BOOSTOFF}
    /\ batt_mv = 0
    /\ packetbuf = << >>
    /\ sleeps = 0
    /\ ticks = 0 /\ txTicks = << >> /\ txIdx = 0
    /\ prevSent = 0 /\ lastSent = 0 /\ lowRun = 0
    /\ entry = [wakes |-> WAKE_FREQ, seqid |-> seqid,
                power_mode |-> power_mode, packetbuf |-> << >>]
    /\ cnt = ZeroCnt
    /\ steps = << >>
    /\ initOk = TRUE
    /\ isr = NoIsr
    /\ settled = TRUE
    /\ temp16 = 0
    /\ initFailed = FALSE
    /\ ripple = NoRipple

(* 'V', utoa(batt_mv, p, 10) for any 16-bit batt_mv *)
EncVolt ==
    /\ pc = "t_volt"
    /\ \E mv \in EncMv :
          /\ batt_mv' = mv
          /\ packetbuf' = packetbuf \o PktVolt(mv)
    /\ cnt' = Bump("volt")
    /\ pc' = "t_temp"
    /\ UNCHANGED << hw, vdetLow, wakes, seqid, power_mode, sleeps, steps,
                    ticks, txTicks, txIdx, prevSent, lastSent, lowRun, entry, initOk,
                    isr, settled, aux >>

(* 'T', dtostrf(t, 1, 1, p) for any temperature in range *)
EncTemp ==
    /\ pc = "t_temp"
    /\ \E t16 \in EncTemp16 :
          /\ temp16' = t16
          /\ packetbuf' = packetbuf \o PktTemp(t16)
    /\ cnt' = Bump("temp")
    /\ pc' = "t_tail"
    /\ UNCHANGED << hw, vdetLow, wakes, seqid, power_mode, batt_mv, sleeps, steps,
                    ticks, txTicks, txIdx, prevSent, lastSent, lowRun, entry, initOk,
                    isr, settled, initFailed, ripple >>

(* the next transmit cycle: the next sequence id, either mode *)
EncAgain ==
    /\ pc = "t_send"
    /\ pc' = "t_head"
    /\ seqid' = NextSeqid(seqid)
    /\ power_mode' \in {MODE_WDT, MODE_BOOSTOFF}
    /\ entry' = [wakes |-> wakes, seqid |-> seqid', power_mode |-> power_mode',
                 packetbuf |-> packetbuf]
    /\ cnt' = ZeroCnt
    /\ UNCHANGED << hw, vdetLow, wakes, batt_mv, packetbuf, sleeps, steps,
                    ticks, txTicks, txIdx, prevSent, lastSent, lowRun, initOk,
                    isr, settled, aux >>

NextEnc == THead \/ EncVolt \/ EncTemp \/ TTail \/ EncAgain

SpecEnc == InitEnc /\ [][NextEnc]_vars

(* C16: with any voltage of up to five digits, any temperature of sign +   *)
(* up to three integer digits + '.' + one digit, any sequence id and       *)
(* either mode, the packet and its NUL fit the 64-byte buffer at every     *)
(* point of the encoding.                                                  *)
C16_FitsBuffer == Len(packetbuf) + 1 <= PacketBufSize

C16_Witness == pc = "t_send" /\ batt_mv = 65535 /\ temp16 = -15992 /\ cnt.enc = 1

(* C17: the main loop is entered only after rf69_init has returned         *)
(* success; a failed call is followed by another call; nothing is sampled, *)
(* sent or put to sleep before the first success; rf69_init is not called  *)
(* again once the loop has started.                                        *)
C17_InitBeforeLoop ==
    /\ pc \notin {"boot", "rf69_init"} => initOk
    /\ (initFailed /\ ~initOk) => pc = "rf69_init"
    /\ ~initOk => /\ ticks = 0 /\ txIdx = 0 /\ cnt = ZeroCnt
                  /\ steps = << >> /\ packetbuf = << >> /\ ~Asleep
    /\ ticks > 0 => pc \notin {"boot", "rf69_init", "set_mode"}

C17_Witness == initFailed /\ initOk /\ pc = "t_send"

(* ---------------------------------------------------------------------- *)
(* The power-mode update under ripple: any initial mode, any sequence of   *)
(* readings around the two thresholds.                                     *)
(* ---------------------------------------------------------------------- *)
RippleSpan == 5

ChangeCap == 2

RippleInputs ==
    (POWER_MODE_WDT_THRESH - RippleSpan) ..
    (POWER_MODE_WDT_THRESH + POWER_MODE_WDT_HYST + RippleSpan)

Max(a, b) == IF a > b THEN a ELSE b

InitRipple == InitMode

RippleStep ==
    /\ pc = "t_update"
    /\ \E mv \in RippleInputs :
          /\ batt_mv' = mv
          /\ power_mode' = PowerModeUpdate(power_mode, mv)
          /\ ripple' = [lo |-> IF ripple.lo = 0 THEN mv ELSE Min(ripple.lo, mv),
                        hi |-> Max(ripple.hi, mv),
                        changes |->
                            IF PowerModeUpdate(power_mode, mv) # power_mode
                            THEN Min(ripple.changes + 1, ChangeCap)
                            ELSE ripple.changes]
    /\ UNCHANGED << pc, hw, vdetLow, wakes, seqid, packetbuf, sleeps, hist, steps,
                    isr, settled, temp16, initFailed >>

NextRipple == RippleStep

SpecRipple == InitRipple /\ [][NextRipple]_vars

(* C18: over any run whose readings differ by at most POWER_MODE_WDT_HYST, *)
(* power_mode changes at most once, whatever the initial mode and wherever *)
(* the band lies.                                                          *)
C18_NoChatter ==
    (ripple.lo > 0 /\ ripple.hi - ripple.lo <= POWER_MODE_WDT_HYST) =>
        ripple.changes <= 1

C18_Witness ==
    /\ ripple.changes = 1
    /\ ripple.hi - ripple.lo = POWER_MODE_WDT_HYST
    /\ ripple.lo < POWER_MODE_WDT_THRESH

(* C19 as stated: every rf69_send is preceded, since the last wake (or     *)
(* power-on), by a capacitor charge delay, after either kind of sleep.     *)
C19_SettledBeforeSend == pc = "t_send" => settled

(* C19 amended: a transmission after power-on or after a voltage-detect    *)
(* sleep is preceded by a charge delay; one after a watchdog sleep is not. *)
C19_SettledUnlessWdt ==
    pc = "t_send" => (settled <=> entry.power_mode = MODE_BOOSTOFF)

C19_Witness == pc = "t_send" /\ settled /\ txIdx >= 1

(* C20: the sleep mechanism after a tick is the one power_mode selects     *)
(* (INT0 iff MODE_BOOSTOFF, watchdog iff MODE_WDT) and the INT0 source and *)
(* the watchdog are never armed together.                                  *)
BranchB ==
    {"arm_int0", "sleep_enable_b", "reg_disable", "sei", "sleep_cpu_b",
     "asleep_b", "cli", "gimsk_clear", "sleep_disable_b", "delay_b"}

BranchW ==
    {"sleep_enable_w", "w_loop", "wdt_enable", "wdie", "sleep_cpu_w",
     "asleep_w", "w_next", "sleep_disable_w"}

C20_Exclusive ==
    /\ ~(int0en /\ wdtOn)
    /\ pc \in BranchB => power_mode = MODE_BOOSTOFF
    /\ pc \in BranchW => power_mode = MODE_WDT
    /\ int0en => pc \in BranchB
    /\ wdtOn => pc \in BranchW

C20_Witness == pc = "asleep_b" /\ int0en /\ entry.power_mode = MODE_WDT

(* C21: a tick that follows a watchdog sleep begins after exactly 8 rounds *)
(* of arm watchdog, enable its interrupt, sleep, each sleep ended by the   *)
(* watchdog handler; the handler has disabled the watchdog before the next *)
(* tick begins, so it is never running during a tick.                      *)
WdtRound == << "wdt_enable", "wdie", "sleep" >>

RECURSIVE WdtRounds(_)
WdtRounds(n) == IF n = 0 THEN << >> ELSE WdtRounds(n - 1) \o WdtRound

AfterWdtSleep == pc = "loop" /\ steps # << >> /\ Head(steps) = "sleep_enable"

C21_EightRounds ==
    /\ AfterWdtSleep =>
          /\ steps = << "sleep_enable" >> \o WdtRounds(8) \o << "sleep_disable" >>
          /\ sleeps = 8
    /\ pc = "w_next" => (isr = [who |-> "wdt", at |-> "asleep_w"] /\ ~wdtOn)
    /\ (InTick \/ pc \in {"loop", "tick_end"}) => (~wdtOn /\ ~wdie)

C21_Witness == AfterWdtSleep /\ sleeps = 8 /\ ~wdtOn /\ Len(steps) = 26

(* C22 as stated: the transmit cycle that encodes sequence id 'a',         *)
(* 1350 mV and 19.2 degrees sends 1aV1350T19.2X5,10,0[JH9].                *)
C22_Inputs ==
    /\ pc = "t_send"
    /\ entry.seqid = Ord("a")
    /\ batt_mv = 1350
    /\ temp16 = 307

C22_ExampleMode0 ==
    C22_Inputs =>
        packetbuf = << "1", "a", "V", "1", "3", "5", "0", "T", "1", "9", ".", "2",
                       "X", "5", ",", "1", "0", ",", "0",
                       "[", "J", "H", "9", "]" >>

(* C22 amended: that cycle sends 1aV1350T19.2X5,10,1[JH9]; a packet with   *)
(* sequence id 'a' always carries ordinal 1 in the X field, and ordinal 0  *)
(* is carried only by packets with sequence ids 'b'..'z'.                  *)
XOrdinal(pkt) == pkt[Len(pkt) - Len(NODE_ID) - 2]

C22_ExampleMode1 ==
    /\ C22_Inputs =>
          packetbuf = << "1", "a", "V", "1", "3", "5", "0", "T", "1", "9", ".", "2",
                         "X", "5", ",", "1", "0", ",", "1",
                         "[", "J", "H", "9", "]" >>
    /\ (pc = "t_send" /\ packetbuf[Len(HOPS) + 1] = "a") => XOrdinal(packetbuf) = "1"
    /\ (pc = "t_send" /\ XOrdinal(packetbuf) = "0") =>
          Ord(packetbuf[Len(HOPS) + 1]) \in Ord("b") .. Ord("z")

C22_Witness == C22_Inputs /\ XOrdinal(packetbuf) = "1" /\ Len(packetbuf) = 24

(* C23: the first tick after power-on transmits, and consecutive           *)
(* transmissions are exactly WAKE_FREQ ticks apart, whatever the power     *)
(* mode and the sampled voltages: by the end of tick t the transmissions   *)
(* are those of ticks 1, 1 + WAKE_FREQ, 1 + 2 * WAKE_FREQ, ... up to t.    *)
C23_TransmitSpacing ==
    /\ Len(txTicks) >= 1 => txTicks[1] = 1
    /\ \A i \in 1 .. (Len(txTicks) - 1) : txTicks[i + 1] - txTicks[i] = WAKE_FREQ
    /\ (pc = "tick_end" /\ ticks < TickCap) =>
          Len(txTicks) = ((ticks - 1) \div WAKE_FREQ) + 1

C23_Witness ==
    /\ pc = "tick_end" /\ ticks = 6 /\ txTicks = << 1, 6 >>
    /\ entry.power_mode = MODE_WDT /\ power_mode = MODE_BOOSTOFF

(* C24: the X field of a packet carries the mode power_mode had before     *)
(* that cycle's update: the first packet carries 1, and packet k+1 carries *)
(* the mode that the update selects from the mode and the voltage of       *)
(* packet k.                                                               *)
IndexOf(pkt, c) == CHOOSE i \in 1 .. Len(pkt) : pkt[i] = c /\ \A j \in 1 .. (i - 1) : pkt[j] # c

DigitVal(c) == CHOOSE d \in 0 .. 9 : DigitChar(d) = c

RECURSIVE atoi(_)
atoi(str) == IF str = << >> THEN 0
             ELSE atoi(SubSeq(str, 1, Len(str) - 1)) * 10 + DigitVal(str[Len(str)])

PktMode(pkt) == DigitVal(XOrdinal(pkt))

PktMv(pkt) == atoi(SubSeq(pkt, Len(HOPS) + 3, IndexOf(pkt, "T") - 1))

C24_ModeLagsVoltage ==
    /\ pc = "t_send" =>
          /\ PktMode(packetbuf) = entry.power_mode
          /\ PktMv(packetbuf) = batt_mv
    /\ (pc = "t_send" /\ txIdx = 0) => PktMode(packetbuf) = MODE_BOOSTOFF
    /\ (pc = "t_send" /\ txIdx >= 1) =>
          PktMode(packetbuf) =
              PowerModeUpdate(PktMode(entry.packetbuf), PktMv(entry.packetbuf))
    /\ (pc = "tick_end" /\ cnt.send = 1) =>
          /\ PktMode(packetbuf) = entry.power_mode
          /\ power_mode = PowerModeUpdate(entry.power_mode, PktMv(packetbuf))

C24_Witness ==
    /\ pc = "t_send" /\ txIdx >= 1
    /\ PktMode(entry.packetbuf) = MODE_BOOSTOFF
    /\ PktMv(entry.packetbuf) < POWER_MODE_WDT_THRESH
    /\ PktMode(packetbuf) = MODE_WDT

(* C25: the regulator is enabled whenever the main sequence is in a cycle  *)
(* tick (sampling, encoding, sending): it is off only between              *)
(* REG_DISABLE and the wake from the voltage-detect sleep, and the main    *)
(* sequence goes on after that sleep only with the regulator enabled.      *)
C25_RegOnWhenActive ==
    /\ (InTick \/ pc \in {"loop", "tick_end"}) => regOn
    /\ pc \in {"cli", "gimsk_clear", "sleep_disable_b", "delay_b"} => regOn
    /\ ~regOn => pc \in {"sei", "sleep_cpu_b", "asleep_b"}

C25_Witness ==
    /\ pc = "t_send" /\ regOn /\ ~iflag
    /\ ticks >= 6 /\ entry.power_mode = MODE_BOOSTOFF

====
